---- MODULE Spec2Model ----
(***************************************************************************)
(* State-machine model of src/chatbot.ts: environment validation, agent    *)
(* initialization with the wallet snapshot file, and the interactive chat  *)
(* loop.  Every action is the code that runs between two suspension points *)
(* (await) of the script; the external SDK calls are black boxes that      *)
(* either return or throw.                                                 *)
(***************************************************************************)
EXTENDS Integers, Sequences, FiniteSets, TLC

\* ------------------------------------------------------------------ bounds
\* Largest number of non-exit lines the user enters at the prompt.
MaxTurns == 2
\* Largest number of chunks the response streams of one run yield in total.
MaxChunks == 3

\* ----------------------------------------------------------------- strings
\* A string is a sequence of one-character strings, so that toLowerCase is
\* computed character by character.
UpperChars == <<"A","B","C","D","E","F","G","H","I","J","K","L","M",
                "N","O","P","Q","R","S","T","U","V","W","X","Y","Z">>
LowerChars == <<"a","b","c","d","e","f","g","h","i","j","k","l","m",
                "n","o","p","q","r","s","t","u","v","w","x","y","z">>

toLowerChar(c) ==
  IF \E i \in 1..Len(UpperChars) : UpperChars[i] = c
    THEN LowerChars[CHOOSE i \in 1..Len(UpperChars) : UpperChars[i] = c]
    ELSE c

\* String.prototype.toLowerCase
toLowerCase(s) == [i \in 1..Len(s) |-> toLowerChar(s[i])]

\* The literal "exit" the loop compares with (line 151).
ExitWord == <<"e","x","i","t">>

\* const initialPrompt (line 132)
initialPrompt ==
  <<"W","h","a","t"," ","g","a","m","e"," ","c","a","n"," ","t","h","e"," ",
    "u","s","e","r"," ","p","l","a","y"," ","a","g","a","i","n","s","t"," ",
    "t","h","e"," ","a","g","e","n","t","?">>

\* Lines the user may enter at the "> " prompt.
Lines ==
  { <<"e","x","i","t">>, <<"E","X","I","T">>, <<"e","X","i","T">>,
    <<"e","x","i","t"," ">>, <<>>, initialPrompt }

\* userInput.toLowerCase() === "exit" (line 151)
IsExitCommandNoFold(userInput) == userInput = ExitWord
IsExitCommand(userInput) == toLowerCase(userInput) = ExitWord

\* ------------------------------------------------------------- environment
\* const requiredVars (line 17)
requiredVars == <<"OPENAI_API_KEY", "CDP_API_KEY_NAME", "CDP_API_KEY_PRIVATE_KEY">>
RequiredNames == {requiredVars[i] : i \in 1..Len(requiredVars)}
\* A variable of process.env is unset (undefined), set to "" or set to a value.
EnvValues == {"unset", "empty", "set"}

\* !process.env[varName] (line 19): undefined and "" are both falsy.
IsFalsy(v) == v \in {"unset", "empty"}

\* The forEach of lines 18-22: every falsy required name, in order.
RECURSIVE CollectMissing(_, _)
CollectMissing(e, i) ==
  IF i > Len(requiredVars) THEN <<>>
  ELSE (IF IsFalsy(e[requiredVars[i]]) THEN <<requiredVars[i]>> ELSE <<>>)
         \o CollectMissing(e, i + 1)

MissingVarsFirstOnly(e) ==
  LET all == CollectMissing(e, 1) IN IF all = <<>> THEN <<>> ELSE <<all[1]>>
MissingVars(e) == CollectMissing(e, 1)

\* ------------------------------------------------------------- wallet file
\* fs.existsSync(WALLET_DATA_FILE) is false
Absent == "<absent>"
\* null / undefined of the script
Null == "<null>"
Undefined == "<undefined>"
\* Wallet states the provider may export.
Wallets == {"w0", "w1"}

\* JSON.stringify(exportedWallet) (line 104); JSON.stringify(undefined) is undefined.
JSONstringify(w) == IF w = Undefined THEN Undefined ELSE "{\"wallet\":\"" \o w \o "\"}"

\* Contents wallet_data.txt may have when the process starts.
InitialFiles == {Absent, "", JSONstringify("w0")}

\* walletDataStr || undefined (line 68): null and "" both give undefined.
OrUndefined(s) == IF s = Null \/ s = "" THEN Undefined ELSE s

VARIABLES
  env,            \* process.env restricted to the required names
  reported,       \* names printed by validateEnvironment, in order
  pc,             \* position of the script
  proc,           \* "running" or "exited"
  exitCode,       \* the process exit status (0 unless process.exit(1) ran)
  thrown,         \* where a value was thrown, or "none"
  file,           \* contents of wallet_data.txt, or Absent
  file0,          \* contents of wallet_data.txt when the process started
  walletDataStr,  \* let walletDataStr (line 53)
  cdpWalletData,  \* config.cdpWalletData (line 68)
  built,          \* objects constructed so far by initializeAgent
  exportedWallet, \* const exportedWallet (line 103)
  loadOutcome,    \* how the snapshot load went: "none", "absent", "read", "readError"
  writes,         \* number of fs.writeFileSync calls
  builtAtWrite,   \* value of built when fs.writeFileSync was called
  rl,             \* the readline interface: "none", "open", "closed"
  closeCalls,     \* number of rl.close() calls made by the script
  closeEvents,    \* number of times the reader went from open to closed
  calls,          \* the agent.stream calls made, in order
  prompts,        \* number of "> " prompts shown
  linesRead,      \* lines returned by question("> "), in order
  inputEnded      \* standard input ended while the reader was open

vars == <<env, reported, pc, proc, exitCode, thrown, file, file0,
          walletDataStr, cdpWalletData, built, exportedWallet, loadOutcome, writes,
          builtAtWrite,
          rl, closeCalls, closeEvents, calls, prompts, linesRead, inputEnded>>

envVars  == <<env, reported>>
initVars == <<walletDataStr, cdpWalletData, built, exportedWallet, loadOutcome>>
fileVars == <<file, file0, writes, builtAtWrite>>
chatVars == <<rl, closeCalls, closeEvents, calls, prompts, linesRead, inputEnded>>

Init ==
  /\ env \in [RequiredNames -> EnvValues]
  /\ reported = <<>>
  /\ pc = "validate"
  /\ proc = "running"
  /\ exitCode = 0
  /\ thrown = "none"
  /\ file \in InitialFiles
  /\ file0 = file
  /\ walletDataStr = Null
  /\ cdpWalletData = Undefined
  /\ built = {}
  /\ exportedWallet = Undefined
  /\ loadOutcome = "none"
  /\ writes = 0
  /\ builtAtWrite = {}
  /\ rl = "none"
  /\ closeCalls = 0
  /\ closeEvents = 0
  /\ calls = <<>>
  /\ prompts = 0
  /\ linesRead = <<>>
  /\ inputEnded = FALSE

\* process.exit(code): the process ends at once; nothing after the call runs.
ProcessExit(code) ==
  /\ proc' = "exited"
  /\ exitCode' = code

\* ------------------------------------------------- validateEnvironment (13-39)
\* The NETWORK_ID warning (lines 33-36) only prints and changes no state.
validateEnvironment ==
  /\ proc = "running" /\ pc = "validate"
  /\ LET missingVars == MissingVars(env) IN
       IF Len(missingVars) > 0
         THEN /\ reported' = missingVars
              /\ ProcessExit(1)
              /\ UNCHANGED pc
         ELSE /\ pc' = "main"
              /\ UNCHANGED <<reported, proc, exitCode>>
  /\ UNCHANGED <<env, thrown, initVars, fileVars, chatVars>>

\* ---------------------------------------------------- initializeAgent (47-111)
\* Objects initializeAgent constructs before it exports the wallet.
Constructed == {"llm", "walletProvider", "agentkit", "tools", "agent"}

\* main() up to the call of initializeAgent (lines 181-184, 197-200)
main ==
  /\ proc = "running" /\ pc = "main"
  /\ pc' = "llm"
  /\ UNCHANGED <<envVars, proc, exitCode, thrown, initVars, fileVars, chatVars>>

\* One constructor or SDK call of initializeAgent returns.
Construct(step, next) ==
  /\ proc = "running" /\ pc = step
  /\ built' = built \cup {step}
  /\ pc' = next
  /\ UNCHANGED <<envVars, proc, exitCode, thrown, walletDataStr, cdpWalletData,
                 exportedWallet, loadOutcome, fileVars, chatVars>>

\* new ChatOpenAI (lines 49-51)
CreateLlm == Construct("llm", "load")

\* Lines 53-70 with every read failure rethrown instead of caught.
LoadWalletDataRethrow ==
  /\ proc = "running" /\ pc = "load"
  /\ \/ /\ file = Absent
        /\ loadOutcome' = "absent"
        /\ walletDataStr' = Null
        /\ cdpWalletData' = OrUndefined(Null)
        /\ pc' = "walletProvider"
        /\ UNCHANGED thrown
     \/ /\ file # Absent
        /\ loadOutcome' = "read"
        /\ walletDataStr' = file
        /\ cdpWalletData' = OrUndefined(file)
        /\ pc' = "walletProvider"
        /\ UNCHANGED thrown
     \/ /\ file # Absent
        /\ loadOutcome' = "readError"
        /\ thrown' = "load"
        /\ pc' = "init_catch"
        /\ UNCHANGED <<walletDataStr, cdpWalletData>>
  /\ UNCHANGED <<envVars, proc, exitCode, built, exportedWallet, fileVars, chatVars>>

\* Read existing wallet data if available, and build config (lines 53-70).
\* readFileSync may throw although existsSync was true; the inner catch logs
\* the error and continues with walletDataStr still null.
LoadWalletData ==
  /\ proc = "running" /\ pc = "load"
  /\ \/ /\ file = Absent
        /\ loadOutcome' = "absent"
        /\ walletDataStr' = Null
     \/ /\ file # Absent
        /\ loadOutcome' = "read"
        /\ walletDataStr' = file
     \/ /\ file # Absent
        /\ loadOutcome' = "readError"
        /\ walletDataStr' = Null
  /\ cdpWalletData' = OrUndefined(walletDataStr')
  /\ pc' = "walletProvider"
  /\ UNCHANGED <<envVars, proc, exitCode, thrown, built, exportedWallet, fileVars,
                 chatVars>>

\* await CdpWalletProvider.configureWithWallet(config) (line 72)
ConfigureWallet == Construct("walletProvider", "agentkit")

\* await AgentKit.from(...) (lines 74-86)
CreateAgentKit == Construct("agentkit", "tools")

\* await getLangChainTools(agentkit) (line 88)
GetTools == Construct("tools", "agent")

\* new MemorySaver, createReactAgent (lines 90-101)
CreateAgent == Construct("agent", "export")

\* await walletProvider.exportWallet() (line 103)
ExportWallet ==
  /\ proc = "running" /\ pc = "export"
  /\ exportedWallet' \in Wallets \cup {Undefined}
  /\ built' = built \cup {"export"}
  /\ pc' = "write"
  /\ UNCHANGED <<envVars, proc, exitCode, thrown, walletDataStr, cdpWalletData,
                 loadOutcome, fileVars, chatVars>>

\* Line 104 writing only when no snapshot exists yet.
WriteWalletDataKeepExisting ==
  /\ proc = "running" /\ pc = "write"
  /\ writes' = writes + 1
  /\ builtAtWrite' = built
  /\ file' = IF file = Absent THEN JSONstringify(exportedWallet) ELSE file
  /\ pc' = "initialized"
  /\ UNCHANGED <<envVars, proc, exitCode, thrown, initVars, file0, chatVars>>

\* fs.writeFileSync(WALLET_DATA_FILE, JSON.stringify(exportedWallet)) and the
\* return (lines 104-106).  The call throws for undefined data (the file is
\* not opened) or for an I/O error (the file is untouched or already truncated).
WriteWalletData ==
  /\ proc = "running" /\ pc = "write"
  /\ writes' = writes + 1
  /\ builtAtWrite' = built
  /\ LET data == JSONstringify(exportedWallet) IN
       \/ /\ data # Undefined
          /\ file' = data
          /\ pc' = "initialized"
          /\ UNCHANGED thrown
       \/ /\ file' \in (IF data = Undefined THEN {file} ELSE {file, ""})
          /\ thrown' = "write"
          /\ pc' = "init_catch"
  /\ UNCHANGED <<envVars, proc, exitCode, initVars, file0, chatVars>>

\* A constructor or SDK call of initializeAgent throws or rejects.
InitStepThrows ==
  /\ proc = "running"
  /\ pc \in Constructed \cup {"export"}
  /\ thrown' = pc
  /\ pc' = "init_catch"
  /\ UNCHANGED <<envVars, proc, exitCode, initVars, fileVars, chatVars>>

\* catch of initializeAgent: log, throw error (lines 107-110)
InitCatch ==
  /\ proc = "running" /\ pc = "init_catch"
  /\ pc' = "main_catch"
  /\ UNCHANGED <<envVars, proc, exitCode, thrown, initVars, fileVars, chatVars>>

\* catch of main: log, process.exit(1) (lines 188-194)
MainCatch ==
  /\ proc = "running" /\ pc = "main_catch"
  /\ ProcessExit(1)
  /\ UNCHANGED <<envVars, pc, thrown, initVars, fileVars, chatVars>>

\* -------------------------------------------------------- runChatMode (120-178)
\* What a streamed chunk carries: an "agent" message, a "tools" message, both,
\* neither, or an "agent" key whose messages[0] is undefined.
ChunkKinds == {"agent", "tools", "both", "neither", "malformed"}

\* The body of the for-await loops (lines 140-145, 162-167): the lines printed
\* for one chunk; reading .content of undefined throws.
Separator == "-------------------"
ChunkThrows(kind) == kind = "malformed"
ChunkLines(kind) ==
  IF kind \in {"agent", "both"} THEN <<"agent content", Separator>>
  ELSE IF kind = "tools" THEN <<"tools content", Separator>>
  ELSE <<Separator>>
Separators(ls) == Len(SelectSeq(ls, LAMBDA l : l = Separator))

\* agent.stream({ messages: [new HumanMessage(msg)] }, config)
NewCall(origin, msg) ==
  [origin |-> origin, msg |-> msg, state |-> "pending", chunks |-> 0, printed |-> 0]

LastCall == calls[Len(calls)]
RECURSIVE TotalChunks(_)
TotalChunks(cs) == IF cs = <<>> THEN 0 ELSE Head(cs).chunks + TotalChunks(Tail(cs))
SetLastCall(c) == [calls EXCEPT ![Len(calls)] = c]

NonExitLines(ls) == SelectSeq(ls, LAMBDA l : ~IsExitCommand(l))

\* rl.close(): closing a closed reader does nothing more.
RlClose ==
  /\ rl' = "closed"
  /\ closeCalls' = closeCalls + 1
  /\ closeEvents' = closeEvents + (IF rl = "open" THEN 1 ELSE 0)

\* Lines 121-149 without the scripted opening prompt.
StartChatNoOpening ==
  /\ proc = "running" /\ pc = "initialized"
  /\ rl' = "open"
  /\ prompts' = prompts + 1
  /\ pc' = "await_input"
  /\ UNCHANGED <<envVars, proc, exitCode, thrown, initVars, fileVars, closeCalls,
                 closeEvents, calls, linesRead, inputEnded>>

\* main after initializeAgent returned, and runChatMode up to the first await
\* (lines 185-187, 121-137): the reader is created and the scripted prompt sent.
StartChat ==
  /\ proc = "running" /\ pc = "initialized"
  /\ rl' = "open"
  /\ calls' = Append(calls, NewCall("scripted", initialPrompt))
  /\ pc' = "stream_call"
  /\ UNCHANGED <<envVars, proc, exitCode, thrown, initVars, fileVars, closeCalls,
                 closeEvents, prompts, linesRead, inputEnded>>

\* await agent.stream(...) resolves with a stream (lines 134, 156)
StreamReturns ==
  /\ proc = "running" /\ pc = "stream_call"
  /\ calls' = SetLastCall([LastCall EXCEPT !.state = "open"])
  /\ pc' = "stream_iter"
  /\ UNCHANGED <<envVars, proc, exitCode, thrown, initVars, fileVars, rl, closeCalls,
                 closeEvents, prompts, linesRead, inputEnded>>

\* agent.stream(...) throws or rejects
StreamCallThrows ==
  /\ proc = "running" /\ pc = "stream_call"
  /\ calls' = SetLastCall([LastCall EXCEPT !.state = "failed"])
  /\ thrown' = "stream"
  /\ pc' = "chat_catch"
  /\ UNCHANGED <<envVars, proc, exitCode, initVars, fileVars, rl, closeCalls,
                 closeEvents, prompts, linesRead, inputEnded>>

\* The stream yields a chunk and the loop body prints it (lines 139-146, 161-168)
NextChunk ==
  /\ proc = "running" /\ pc = "stream_iter"
  /\ TotalChunks(calls) < MaxChunks
  /\ \E kind \in ChunkKinds :
       IF ChunkThrows(kind)
         THEN /\ calls' = SetLastCall([LastCall EXCEPT !.chunks = @ + 1,
                                                        !.state = "failed"])
              /\ thrown' = "print"
              /\ pc' = "chat_catch"
         ELSE /\ calls' = SetLastCall([LastCall EXCEPT
                            !.chunks = @ + 1,
                            !.printed = @ + Separators(ChunkLines(kind))])
              /\ UNCHANGED <<thrown, pc>>
  /\ UNCHANGED <<envVars, proc, exitCode, initVars, fileVars, rl, closeCalls,
                 closeEvents, prompts, linesRead, inputEnded>>

\* Advancing the stream throws (lines 139, 161)
IterationThrows ==
  /\ proc = "running" /\ pc = "stream_iter"
  /\ calls' = SetLastCall([LastCall EXCEPT !.state = "failed"])
  /\ thrown' = "iterate"
  /\ pc' = "chat_catch"
  /\ UNCHANGED <<envVars, proc, exitCode, initVars, fileVars, rl, closeCalls,
                 closeEvents, prompts, linesRead, inputEnded>>

\* The loop asks for input without waiting for the stream to end.
StreamEndsEarlyPrompt ==
  /\ proc = "running"
  /\ pc \in {"stream_call", "stream_iter"}
  /\ rl = "open"
  /\ prompts' = prompts + 1
  /\ pc' = "await_input"
  /\ UNCHANGED <<envVars, proc, exitCode, thrown, initVars, fileVars, rl, closeCalls,
                 closeEvents, calls, linesRead, inputEnded>>

\* The stream is exhausted and the loop calls question("> ") (lines 146-149,
\* 168-169, 128-129).  On a reader that has already closed, rl.question either
\* throws (the promise rejects) or stores a callback that is never called,
\* depending on the Node.js version.
StreamEnds ==
  /\ proc = "running" /\ pc = "stream_iter"
  /\ calls' = SetLastCall([LastCall EXCEPT !.state = "drained"])
  /\ \/ /\ prompts' = prompts + 1
        /\ pc' = "await_input"
        /\ UNCHANGED thrown
     \/ /\ rl = "closed"
        /\ thrown' = "question"
        /\ pc' = "chat_catch"
        /\ UNCHANGED prompts
  /\ UNCHANGED <<envVars, proc, exitCode, initVars, fileVars, rl, closeCalls,
                 closeEvents, linesRead, inputEnded>>

\* Lines 149-159 with the wallet snapshot saved again when the user exits.
ReadLineSaveOnExit ==
  /\ proc = "running" /\ pc = "await_input" /\ rl = "open"
  /\ \E userInput \in Lines :
       /\ IsExitCommand(userInput) \/ Len(NonExitLines(linesRead)) < MaxTurns
       /\ linesRead' = Append(linesRead, userInput)
       /\ IF IsExitCommand(userInput)
            THEN /\ RlClose
                 /\ file' = JSONstringify(exportedWallet)
                 /\ writes' = writes + 1
                 /\ pc' = "chat_returned"
                 /\ UNCHANGED calls
            ELSE /\ calls' = Append(calls, NewCall("user", userInput))
                 /\ pc' = "stream_call"
                 /\ UNCHANGED <<rl, closeCalls, closeEvents, file, writes>>
  /\ UNCHANGED <<envVars, proc, exitCode, thrown, initVars, file0, builtAtWrite,
                 prompts, inputEnded>>

\* The reader delivers a line to the pending question (lines 149-159): on the
\* exit command the loop breaks, finally closes the reader and runChatMode
\* returns (lines 151-154, 175-177); any other line is sent to the agent.
ReadLine ==
  /\ proc = "running" /\ pc = "await_input" /\ rl = "open"
  /\ \E userInput \in Lines :
       /\ IsExitCommand(userInput) \/ Len(NonExitLines(linesRead)) < MaxTurns
       /\ linesRead' = Append(linesRead, userInput)
       /\ IF IsExitCommand(userInput)
            THEN /\ RlClose
                 /\ pc' = "chat_returned"
                 /\ UNCHANGED calls
            ELSE /\ calls' = Append(calls, NewCall("user", userInput))
                 /\ pc' = "stream_call"
                 /\ UNCHANGED <<rl, closeCalls, closeEvents>>
  /\ UNCHANGED <<envVars, proc, exitCode, thrown, initVars, fileVars, prompts,
                 inputEnded>>

\* catch of runChatMode (lines 170-174): log, process.exit(1).  The process
\* ends inside the catch block, so the finally block (lines 175-177) never runs.
ChatCatch ==
  /\ proc = "running" /\ pc = "chat_catch"
  /\ ProcessExit(1)
  /\ UNCHANGED <<envVars, pc, thrown, initVars, fileVars, chatVars>>

\* runChatMode has returned; main returns (lines 187, 195)
MainReturns ==
  /\ proc = "running" /\ pc = "chat_returned"
  /\ pc' = "main_done"
  /\ UNCHANGED <<envVars, proc, exitCode, thrown, initVars, fileVars, chatVars>>

\* Standard input ends while the reader is open: the reader closes itself.
\* The callback of a pending rl.question is not called (lines 128-129 give the
\* promise no other way to settle).
InputEnds ==
  /\ proc = "running" /\ rl = "open"
  /\ rl' = "closed"
  /\ closeEvents' = closeEvents + 1
  /\ inputEnded' = TRUE
  /\ UNCHANGED <<envVars, pc, proc, exitCode, thrown, initVars, fileVars, closeCalls,
                 calls, prompts, linesRead>>

\* Nothing is left to run: main has returned, or the loop waits on a question
\* that a closed reader will never answer.  The process ends with the status
\* it has (0 unless process.exit was called).
ProcessEnds ==
  /\ proc = "running"
  /\ \/ pc = "main_done"
     \/ pc = "await_input" /\ rl = "closed"
  /\ proc' = "exited"
  /\ UNCHANGED <<envVars, pc, exitCode, thrown, initVars, fileVars, chatVars>>

Next ==
  \/ validateEnvironment
  \/ main
  \/ CreateLlm
  \/ LoadWalletData
  \/ ConfigureWallet
  \/ CreateAgentKit
  \/ GetTools
  \/ CreateAgent
  \/ ExportWallet
  \/ WriteWalletData
  \/ InitStepThrows
  \/ InitCatch
  \/ MainCatch
  \/ StartChat
  \/ StreamReturns
  \/ StreamCallThrows
  \/ NextChunk
  \/ IterationThrows
  \/ StreamEnds
  \/ ReadLine
  \/ ChatCatch
  \/ MainReturns
  \/ InputEnds
  \/ ProcessEnds

Spec == Init /\ [][Next]_vars

\* ------------------------------------------------------------------ properties
Range(q) == {q[i] : i \in 1..Len(q)}

\* The required names whose value is unset or empty.
MissingSet == {n \in RequiredNames : env[n] # "set"}

\* validateEnvironment has run.
Validated == pc # "validate" \/ proc = "exited"

\* Every spelling of "exit" in some letter case.
ExitSpellings ==
  {<<a, b, c, d>> : a \in {"e", "E"}, b \in {"x", "X"}, c \in {"i", "I"}, d \in {"t", "T"}}

\* The last line read at the prompt is the exit command.
ExitRead == linesRead # <<>> /\ linesRead[Len(linesRead)] \in ExitSpellings

UserCalls == SelectSeq(calls, LAMBDA c : c.origin = "user")
ScriptedCalls == SelectSeq(calls, LAMBDA c : c.origin = "scripted")
DrainedCalls == SelectSeq(calls, LAMBDA c : c.state = "drained")
InProgress == {i \in 1..Len(calls) : calls[i].state \in {"pending", "open"}}

\* Positions of the script after initializeAgent has returned an agent.
AfterInit ==
  {"initialized", "stream_call", "stream_iter", "await_input", "chat_catch",
   "chat_returned", "main_done"}

\* Places inside the chat loop where a value can be thrown.
ChatThrows == {"stream", "iterate", "print", "question"}

\* C1: validateEnvironment ends the process with status 1 exactly when some
\* required variable is unset or empty, and then the names it reports are
\* exactly the missing ones, each once; with all three set it does not end
\* the process.
C1_ValidateEnvironment ==
  Validated =>
    IF MissingSet = {}
      THEN pc # "validate" /\ reported = <<>>
      ELSE /\ pc = "validate" /\ proc = "exited" /\ exitCode = 1
           /\ Range(reported) = MissingSet
           /\ Len(reported) = Cardinality(MissingSet)

C1_Witness ==
  /\ pc = "validate" /\ proc = "exited"
  /\ Cardinality(MissingSet) = 2
  /\ \E n \in RequiredNames : env[n] = "empty"
  /\ \E n \in RequiredNames : env[n] = "unset"

\* C2: once the line read at the prompt is "exit" in any letter case, the loop
\* has ended and reads no further line, that line was not sent to the agent,
\* the reader was closed exactly once, nothing was thrown, and the process
\* ends, or can still only end, with status 0.
C2_ExitCommand ==
  /\ \A i \in 1..Len(linesRead) : linesRead[i] \in ExitSpellings => i = Len(linesRead)
  /\ \A i \in 1..Len(calls) : calls[i].origin = "user" => calls[i].msg \notin ExitSpellings
  /\ ExitRead =>
       /\ pc \in {"chat_returned", "main_done"}
       /\ Len(UserCalls) = Len(linesRead) - 1
       /\ rl = "closed" /\ closeCalls = 1 /\ closeEvents = 1
       /\ thrown = "none"
       /\ exitCode = 0
       /\ proc = "exited" \/ ENABLED (MainReturns \/ ProcessEnds)

C2_Witness ==
  /\ Len(linesRead) = 2
  /\ linesRead[2] = <<"E","X","I","T">>
  /\ proc = "exited" /\ exitCode = 0

\* C3: whenever the process has ended after runChatMode stopped, by the exit
\* command or by a value thrown in the loop, rl.close() has run.
C3_ReaderClosedOnEveryPath ==
  (proc = "exited" /\ (ExitRead \/ thrown \in ChatThrows)) => closeCalls >= 1

\* C4: the messages of the user's agent.stream calls are exactly the non-exit
\* lines read, one call per line and in order; at most one call, the last, is
\* in progress at any time; no line is read and no prompt is pending while a
\* call is in progress; and every prompt shown follows its own drained stream.
C4_OneTurnAtATime ==
  /\ [i \in 1..Len(UserCalls) |-> UserCalls[i].msg]
       = SelectSeq(linesRead, LAMBDA l : l \notin ExitSpellings)
  /\ Cardinality(InProgress) <= 1
  /\ InProgress \subseteq {Len(calls)}
  /\ pc = "await_input" => InProgress = {} /\ Len(DrainedCalls) = Len(calls)
  /\ prompts <= Len(DrainedCalls)
  /\ Len(linesRead) <= prompts

C4_Witness ==
  /\ Len(UserCalls) = 2
  /\ Len(DrainedCalls) = 3
  /\ prompts = 3
  /\ UserCalls[1].chunks > 0
  /\ pc = "await_input" /\ rl = "open"

\* C5: every ended run in which a value was thrown during initialization or in
\* the chat loop has status 1, and a run that ended with status 0 read the
\* exit command.
C5_ExitStatus ==
  proc = "exited" =>
    /\ thrown # "none" => exitCode = 1
    /\ exitCode = 0 => ExitRead

\* C6: when wallet_data.txt is absent or reading it fails, nothing is thrown
\* by the loader step, the configuration has no prior snapshot, and
\* initialization goes on to the wallet provider configuration.
C6_LoaderTolerant ==
  loadOutcome \in {"absent", "readError"} =>
    /\ thrown # "load"
    /\ walletDataStr = Null /\ cdpWalletData = Undefined
    /\ \/ pc = "walletProvider"
       \/ "walletProvider" \in built
       \/ thrown = "walletProvider"

C6_Witness ==
  /\ loadOutcome = "readError"
  /\ file0 = JSONstringify("w0")
  /\ "walletProvider" \in built

\* C7: once initializeAgent has returned an agent, and so whenever the chat
\* loop has started, wallet_data.txt exists and holds the JSON serialization
\* of the wallet exported in this run, whatever it held before.
C7_SnapshotWritten ==
  (pc \in AfterInit \/ rl # "none" \/ calls # <<>>) =>
    /\ exportedWallet \in Wallets
    /\ file # Absent
    /\ file = JSONstringify(exportedWallet)
    /\ writes = 1

C7_Witness ==
  /\ pc = "await_input"
  /\ file0 = JSONstringify("w0")
  /\ exportedWallet = "w1"
  /\ file = JSONstringify("w1")

\* C8: the scripted opening prompt is the first agent.stream call, no other
\* call is scripted, a run that has opened the reader has made it, and a
\* "> " prompt is shown only after its stream was drained with every chunk
\* printed.
C8_OpeningPrompt ==
  /\ Len(ScriptedCalls) <= 1
  /\ calls # <<>> => calls[1].origin = "scripted" /\ calls[1].msg = initialPrompt
  /\ rl # "none" => Len(ScriptedCalls) = 1
  /\ prompts > 0 =>
       /\ calls # <<>>
       /\ calls[1].state = "drained"
       /\ calls[1].printed = calls[1].chunks

C8_Witness ==
  /\ prompts = 1
  /\ Len(calls) = 1
  /\ calls[1].chunks = 2
  /\ calls[1].state = "drained"

\* C9: when standard input has ended and the process has ended without any
\* value thrown, the loop has stopped (it is not left waiting at the prompt)
\* and the reader cleanup rl.close() has run.
C9_ClosedInputTerminal ==
  (inputEnded /\ thrown = "none" /\ proc = "exited") =>
    (pc \in {"chat_returned", "main_done"} /\ closeCalls = 1)

\* C10: wallet_data.txt is written at most once, by the last step of
\* initializeAgent after the model, wallet provider, toolkit, tools and agent
\* were constructed and the wallet exported; until then, and so whenever
\* validation or an earlier step fails, it is what it was at start; and it is
\* never written once the chat loop has begun.
C10_Inv ==
  /\ writes <= 1
  /\ writes = 0 => file = file0
  /\ writes = 1 => builtAtWrite = Constructed \cup {"export"}
  /\ (pc = "validate" /\ proc = "exited") => writes = 0
  /\ thrown \in Constructed \cup {"export"} => writes = 0

C10_SingleWrite ==
  /\ []C10_Inv
  /\ [][(file' # file \/ writes' # writes) => (pc = "write" /\ rl = "none")]_vars

C10_Witness ==
  /\ thrown = "export"
  /\ proc = "exited"
  /\ file0 = JSONstringify("w0")
  /\ file = file0
====
